---------------------------- MODULE Spec2Model ----------------------------
(***************************************************************************)
(* GoSize: a concurrent directory scanner that keeps the K largest files   *)
(* and directories.  The model follows src/main.go: the minHeap selector   *)
(* (push/up/down/sortedDesc), walkDir with its semaphore-bounded fan-out,  *)
(* and the part of main that starts the root scans, waits and prints.      *)
(*                                                                         *)
(* Paths are sequences of names (filepath.Join appends a name).  Go slices *)
(* are 0-based; the heap operators keep Go's 0-based index i and read the  *)
(* sequence at i + 1.                                                      *)
(***************************************************************************)
EXTENDS Integers, Sequences, FiniteSets, TLC

VARIABLES
    fsys,        \* the file system under the roots (never changes in a run)
    cfg,         \* walkCfg
    cancelled,   \* ctx.Done() is closed
    sem,         \* number of tokens held in the channel sem
    s,           \* stats: filesSeen, dirsSeen, skipped, errors
    fileTop,     \* minHeap of files: [data, k]
    dirTop,      \* minHeap of directories: [data, k]
    filePushed,  \* history: every item handed to fileTop.push, in order
    dirPushed,   \* history: every item handed to dirTop.push, in order
    readDirs,    \* history: the paths os.ReadDir was called on
    pc,          \* per directory: where its walkDir call (and its goroutine) is
    idx,         \* per directory: position of the range loop over entries
    total,       \* per directory: the local variable total
    reg,         \* per directory: value of total read by the walkDir goroutine
                 \*   for a "total += x" it has not yet written back
    acc,         \* per directory: value of the parent's total read by the
                 \*   child goroutine under mu, not yet written back
    wg,          \* per directory: counter of the local sync.WaitGroup
    mu,          \* per directory: holder of the local sync.Mutex (or Free)
    mode,        \* per directory: how its walkDir call was made
    ret,         \* per directory: what its walkDir call returned
    born,        \* history, per directory: ctx was done when the call was made
    mainPc,      \* position of main
    rootIdx,     \* number of root goroutines main has started
    rootsWg,     \* counter of main's sync.WaitGroup
    dirOut,      \* what main got from dirTop.sortedDesc()
    fileOut,     \* what main got from fileTop.sortedDesc()
    summary,     \* the counters main read for the summary line
    outAt        \* history: the number of pushes into fileTop made before the
                 \*   call of fileTop.sortedDesc() that returned fileOut

heapVars  == <<fileTop, dirTop, filePushed, dirPushed>>
frameVars == <<pc, idx, total, reg, acc, wg, mu, mode, ret, born>>
mainVars  == <<mainPc, rootIdx, rootsWg, dirOut, fileOut, summary, outAt>>
vars == <<fsys, cfg, cancelled, sem, s, readDirs, heapVars, frameVars, mainVars>>

---------------------------------------------------------------------------
(* Bounds of the model *)

MaxTopK    == 3   \* largest -top explored
MaxWorkers == 2   \* largest -workers explored
MaxPushes  == 4   \* pushes into one selector in HeapSpec
MaxSize    == 3   \* largest size pushed in HeapSpec

Min(a, b) == IF a < b THEN a ELSE b

---------------------------------------------------------------------------
(* item and minHeap *)

item(Path, Size) == [Path |-> Path, Size |-> Size]

minHeap(k) == [data |-> <<>>, k |-> k]

swap(data, i, j) == [data EXCEPT ![i + 1] = data[j + 1], ![j + 1] = data[i + 1]]

RECURSIVE up(_, _)
up(data, i) ==
    IF i > 0
    THEN LET p == (i - 1) \div 2
         IN  IF data[p + 1].Size <= data[i + 1].Size
             THEN data
             ELSE up(swap(data, p, i), p)
    ELSE data

\* a sift-down that stops at once
downNoSift(data, i) == data

RECURSIVE down(_, _)
down(data, i) ==
    LET n == Len(data)
        l == 2 * i + 1
        r == l + 1
        sm1 == IF l < n /\ data[l + 1].Size < data[i + 1].Size THEN l ELSE i
        small == IF r < n /\ data[r + 1].Size < data[sm1 + 1].Size THEN r ELSE sm1
    IN  IF small = i THEN data ELSE down(swap(data, i, small), small)

\* a push that always keeps the item
pushUnbounded(h, it) == [h EXCEPT !.data = up(Append(h.data, it), Len(h.data))]

\* a push that also replaces the root by an item of the same size
pushReplaceOnTie(h, it) ==
    IF h.k <= 0 THEN h
    ELSE IF Len(h.data) < h.k
    THEN [h EXCEPT !.data = up(Append(h.data, it), Len(h.data))]
    ELSE IF it.Size >= h.data[1].Size
    THEN [h EXCEPT !.data = down([h.data EXCEPT ![1] = it], 0)]
    ELSE h

push(h, it) ==
    IF h.k <= 0 THEN h
    ELSE IF Len(h.data) < h.k
    THEN [h EXCEPT !.data = up(Append(h.data, it), Len(h.data))]
    ELSE IF it.Size > h.data[1].Size
    THEN [h EXCEPT !.data = down([h.data EXCEPT ![1] = it], 0)]
    ELSE h

Perms(n) == {p \in [1..n -> 1..n] : \A i, j \in 1..n : i # j => p[i] # p[j]}

\* a snapshot sorted the other way round
sortedAsc(h) ==
    LET n == Len(h.data)
    IN  {[i \in 1..n |-> h.data[p[i]]] :
            p \in {q \in Perms(n) :
                     \A i \in 1..(n - 1) : h.data[q[i]].Size <= h.data[q[i + 1]].Size}}

\* sort.Slice with less = (out[i].Size > out[j].Size) is not stable: the order
\* of items of equal size is not fixed by the code, so sortedDesc is the set
\* of the results it may return.
sortedDesc(h) ==
    LET n == Len(h.data)
    IN  {[i \in 1..n |-> h.data[p[i]]] :
            p \in {q \in Perms(n) :
                     \A i \in 1..(n - 1) : h.data[q[i]].Size >= h.data[q[i + 1]].Size}}

---------------------------------------------------------------------------
(* The file system and the configuration *)

NoErr   == "nil"
ErrPerm == "permission"   \* an error for which errors.Is(err, fs.ErrPermission)
ErrIO   == "io"           \* any other error of os.ReadDir
ErrCtx  == "canceled"     \* ctx.Err() once ctx is done

Dir(entries, listErr) ==
    [type |-> "dir", size |-> 0, entries |-> entries, listErr |-> listErr, infoErr |-> FALSE]
File(size) ==
    [type |-> "file", size |-> size, entries |-> <<>>, listErr |-> NoErr, infoErr |-> FALSE]
Symlink ==
    [type |-> "symlink", size |-> 0, entries |-> <<>>, listErr |-> NoErr, infoErr |-> FALSE]

\* a symbolic link to the node at path target; os.Stat would follow it, while
\* de.Info() (an lstat) describes the link itself
SymlinkTo(target) ==
    [type |-> "symlink", size |-> 0, entries |-> <<>>, listErr |-> NoErr, infoErr |-> FALSE,
     target |-> target]
\* an entry for which de.Info() returns an error
NoInfo(node) == [node EXCEPT !.infoErr = TRUE]

\* Two roots, no failure: C holds a subdirectory and a file, D a subdirectory
\* and a symbolic link.  os.ReadDir returns the entries sorted by name.
FSClean ==
    [roots |-> << <<"C">>, <<"D">> >>,
     nodes |-> ( <<"C">>           :> Dir(<<"a", "f">>, NoErr)
              @@ <<"C", "a">>      :> Dir(<<"g">>, NoErr)
              @@ <<"C", "a", "g">> :> File(1)
              @@ <<"C", "f">>      :> File(2)
              @@ <<"D">>           :> Dir(<<"d", "l">>, NoErr)
              @@ <<"D", "d">>      :> Dir(<<>>, NoErr)
              @@ <<"D", "l">>      :> Symlink )]

\* One root with a permission-denied subdirectory, a readable one, one whose
\* listing fails with an I/O error, and a file.
FSErr ==
    [roots |-> << <<"E">> >>,
     nodes |-> ( <<"E">>           :> Dir(<<"b", "c", "e", "k">>, NoErr)
              @@ <<"E", "b">>      :> Dir(<<>>, ErrPerm)
              @@ <<"E", "c">>      :> Dir(<<"h">>, NoErr)
              @@ <<"E", "c", "h">> :> File(1)
              @@ <<"E", "e">>      :> Dir(<<>>, ErrIO)
              @@ <<"E", "k">>      :> File(2) )]

\* One root for the filters of the loop body: R/a holds a dot file, a
\* subdirectory at depth 2, a link to a file, a link whose metadata cannot be
\* read and a link to a directory.
FSFilter ==
    [roots |-> << <<"R">> >>,
     nodes |-> ( <<"R">>                :> Dir(<<"a", "k">>, NoErr)
              @@ <<"R", "a">>           :> Dir(<<".h", "b", "l", "m", "p">>, NoErr)
              @@ <<"R", "a", ".h">>     :> File(1)
              @@ <<"R", "a", "b">>      :> Dir(<<"f">>, NoErr)
              @@ <<"R", "a", "b", "f">> :> File(3)
              @@ <<"R", "a", "l">>      :> SymlinkTo(<<"R", "k">>)
              @@ <<"R", "a", "m">>      :> NoInfo(Symlink)
              @@ <<"R", "a", "p">>      :> SymlinkTo(<<"R", "a", "b">>)
              @@ <<"R", "k">>           :> File(2) )]

\* the values of -maxdepth and of -skip explored with FSFilter
Depths == {0, 1}
SkipLists == {<<>>, << <<"R", "a", "*">> >>}

\* One root that holds regular files only.
FSFlat ==
    [roots |-> << <<"F">> >>,
     nodes |-> ( <<"F">>      :> Dir(<<"x", "y">>, NoErr)
              @@ <<"F", "x">> :> File(1)
              @@ <<"F", "y">> :> File(3) )]

\* One root whose listing fails with an I/O error.
FSRootErr ==
    [roots |-> << <<"B">> >>,
     nodes |-> ( <<"B">> :> Dir(<<>>, ErrIO) )]

\* No file system: the selector alone is exercised.
FSNone == [roots |-> <<>>, nodes |-> <<>>]

\* Names with a leading dot (strings.HasPrefix(name, ".")).
DotNames == {".h"}

Dirs == {p \in DOMAIN fsys.nodes : fsys.nodes[p].type = "dir"}
Roots == {fsys.roots[i] : i \in 1..Len(fsys.roots)}

full(path, name) == Append(path, name)            \* filepath.Join(path, name)
parent(p) == SubSeq(p, 1, Len(p) - 1)
Children(d) == {c \in Dirs : Len(c) > 1 /\ parent(c) = d}
depth(p) == Len(p) - 1                            \* roots are walked at depth 0

\* filepath.Match on whole path elements: "*" matches any one element (it
\* never matches a separator), any other element matches itself.
Match(pattern, path) ==
    /\ Len(pattern) = Len(path)
    /\ \A i \in 1..Len(path) : pattern[i] = "*" \/ pattern[i] = path[i]

shouldSkipByGlob(path, patterns) ==
    \E i \in 1..Len(patterns) : Match(patterns[i], path)

\* a classifier that also ignores the cancellation error
isIgnorableOrCtx(err) == err \in {ErrPerm, ErrCtx}

\* a classifier that ignores every error
isIgnorableAlways(err) == TRUE

\* a classifier that ignores no error
isIgnorableNever(err) == FALSE

isIgnorable(err) == err = ErrPerm

walkCfg(topK, workers, followLinks, maxDepth, skipHidden, skipPatterns) ==
    [topK |-> topK, workers |-> workers, followLinks |-> followLinks,
     maxDepth |-> maxDepth, skipHidden |-> skipHidden, skipPatterns |-> skipPatterns]

\* a loop body that tests the skip patterns after the other filters
classifyGlobLast(path, name) ==
    LET fp == full(path, name)
        de == fsys.nodes[fp]
    IN  IF de.infoErr THEN "infoErr"
        ELSE IF de.type = "symlink" /\ ~cfg.followLinks THEN "symlink"
        ELSE IF cfg.skipHidden /\ name \in DotNames THEN "hidden"
        ELSE IF de.type = "dir" THEN "dir"
        ELSE IF de.type = "file" THEN "file"
        ELSE IF shouldSkipByGlob(fp, cfg.skipPatterns) THEN "glob"
        ELSE "other"

\* a loop body without the symlink test
classifyNoLinkTest(path, name) ==
    LET fp == full(path, name)
        de == fsys.nodes[fp]
    IN  IF shouldSkipByGlob(fp, cfg.skipPatterns) THEN "glob"
        ELSE IF de.infoErr THEN "infoErr"
        ELSE IF cfg.skipHidden /\ name \in DotNames THEN "hidden"
        ELSE IF de.type = "dir" THEN "dir"
        ELSE IF de.type = "file" THEN "file"
        ELSE "other"

\* What the loop body of walkDir does with entry `name` of directory `path`:
\* the tests of lines 354-409 in their order.
classify(path, name) ==
    LET fp == full(path, name)
        de == fsys.nodes[fp]
    IN  IF shouldSkipByGlob(fp, cfg.skipPatterns) THEN "glob"
        ELSE IF de.infoErr THEN "infoErr"
        ELSE IF de.type = "symlink" /\ ~cfg.followLinks THEN "symlink"
        ELSE IF cfg.skipHidden /\ name \in DotNames THEN "hidden"
        ELSE IF de.type = "dir" THEN "dir"
        ELSE IF de.type = "file" THEN "file"
        ELSE "other"

\* no depth test
depthLimitedNever(d, maxDepth) == FALSE

\* a depth test that is off by one
depthLimitedFromMax(d, maxDepth) == maxDepth > 0 /\ d >= maxDepth

depthLimited(d, maxDepth) == maxDepth > 0 /\ d > maxDepth

\* a poll that never sees ctx done
ctxDoneNever(c) == FALSE

ctxDone(c) == c                   \* case <-ctx.Done()

\* a send that succeeds whatever the channel holds
trySendAlways(n, cap) == TRUE

trySend(n, cap) == n < cap        \* case sem <- struct{}{} can proceed

\* a select without its default branch (a blocking send)
selectDefaultNever(n, cap) == FALSE

selectDefault(n, cap) == ~(n < cap)   \* no case can proceed: default

\* a Wait that does not wait
wgZeroAlways(n) == TRUE

wgZero(n) == n = 0                \* wg.Wait() returns

result(size, err) == [size |-> size, err |-> err]

Free == <<>>                      \* mu is not held

---------------------------------------------------------------------------
(* Initial states *)

stats0 == [filesSeen |-> 0, dirsSeen |-> 0, skipped |-> 0, errors |-> 0]

\* The state main has built at line 235, for file system f and flags c.
InitWith(f, c) ==
    /\ fsys = f
    /\ cfg = c
    /\ cancelled = FALSE
    /\ sem = 0
    /\ s = stats0
    /\ fileTop = minHeap(c.topK)
    /\ dirTop = minHeap(c.topK)
    /\ filePushed = <<>>
    /\ dirPushed = <<>>
    /\ readDirs = {}
    /\ pc = [d \in Dirs |-> "idle"]
    /\ idx = [d \in Dirs |-> 1]
    /\ total = [d \in Dirs |-> 0]
    /\ reg = [d \in Dirs |-> 0]
    /\ acc = [d \in Dirs |-> 0]
    /\ wg = [d \in Dirs |-> 0]
    /\ mu = [d \in Dirs |-> Free]
    /\ mode = [d \in Dirs |-> "none"]
    /\ ret = [d \in Dirs |-> result(0, NoErr)]
    /\ born = [d \in Dirs |-> FALSE]
    /\ mainPc = "spawn"
    /\ rootIdx = 0
    /\ rootsWg = 0
    /\ dirOut = <<>>
    /\ fileOut = <<>>
    /\ summary = stats0
    /\ outAt = -1

\* The flags left at their defaults except -top and -workers.
Init ==
    \E f \in {FSClean, FSErr, FSFlat, FSRootErr}, k \in 0..MaxTopK, w \in 0..MaxWorkers :
        InitWith(f, walkCfg(k, w, FALSE, 0, FALSE, <<>>))

\* Every combination of -followlinks, -maxdepth, -skip-hidden and -skip.
InitFilter ==
    \E w \in 0..MaxWorkers, fl \in BOOLEAN, md \in Depths, sh \in BOOLEAN,
       sp \in SkipLists :
        InitWith(FSFilter, walkCfg(MaxTopK, w, fl, md, sh, sp))

---------------------------------------------------------------------------
(* walkDir *)

cur(d) == fsys.nodes[d].entries[idx[d]]          \* de.Name() of this iteration
inLoop(d) == pc[d] = "iter" /\ idx[d] <= Len(fsys.nodes[d].entries)
\* an increment that is lost
bumpLost(field) == s

bump(field) == [s EXCEPT ![field] = @ + 1]       \* atomic.AddInt64(&s.field, 1)

\* lines 326-330: the poll of ctx at entry
WalkEntry(d) ==
    /\ pc[d] = "entry"
    /\ IF ctxDone(cancelled)
       THEN /\ pc' = [pc EXCEPT ![d] = "returned"]
            /\ ret' = [ret EXCEPT ![d] = result(0, ErrCtx)]
       ELSE /\ pc' = [pc EXCEPT ![d] = "list"]
            /\ UNCHANGED ret
    /\ UNCHANGED <<fsys, cfg, cancelled, sem, s, readDirs, heapVars, mainVars,
                   idx, total, reg, acc, wg, mu, mode, born>>

\* lines 332-343: the depth limit, then os.ReadDir
WalkList(d) ==
    /\ pc[d] = "list"
    /\ IF depthLimited(depth(d), cfg.maxDepth)
       THEN /\ s' = bump("skipped")
            /\ pc' = [pc EXCEPT ![d] = "returned"]
            /\ ret' = [ret EXCEPT ![d] = result(0, NoErr)]
            /\ UNCHANGED readDirs
       ELSE /\ readDirs' = readDirs \cup {d}
            /\ IF fsys.nodes[d].listErr # NoErr
               THEN /\ s' = bump("errors")
                    /\ pc' = [pc EXCEPT ![d] = "returned"]
                    /\ ret' = [ret EXCEPT ![d] = result(0, fsys.nodes[d].listErr)]
               ELSE /\ s' = bump("dirsSeen")
                    /\ pc' = [pc EXCEPT ![d] = "iter"]
                    /\ UNCHANGED ret
    /\ UNCHANGED <<fsys, cfg, cancelled, sem, heapVars, mainVars,
                   idx, total, reg, acc, wg, mu, mode, born>>

\* lines 354-375 and an entry that is neither a directory nor a regular file
WalkSkip(d) ==
    /\ inLoop(d)
    /\ LET c == classify(d, cur(d))
       IN  /\ c \in {"glob", "infoErr", "symlink", "hidden", "other"}
           /\ s' = IF c = "infoErr" THEN bump("errors")
                   ELSE IF c = "other" THEN s
                   ELSE bump("skipped")
    /\ idx' = [idx EXCEPT ![d] = @ + 1]
    /\ UNCHANGED <<fsys, cfg, cancelled, sem, readDirs, heapVars, mainVars,
                   pc, total, reg, acc, wg, mu, mode, ret, born>>

\* lines 380-394: a slot is free; the subtree goes to a new goroutine
WalkSpawn(d) ==
    /\ inLoop(d)
    /\ classify(d, cur(d)) = "dir"
    /\ trySend(sem, cfg.workers)
    /\ LET c == full(d, cur(d))
       IN  /\ sem' = sem + 1
           /\ wg' = [wg EXCEPT ![d] = @ + 1]
           /\ pc' = [pc EXCEPT ![c] = "entry"]
           /\ mode' = [mode EXCEPT ![c] = "async"]
           /\ born' = [born EXCEPT ![c] = cancelled]
    /\ idx' = [idx EXCEPT ![d] = @ + 1]
    /\ UNCHANGED <<fsys, cfg, cancelled, s, readDirs, heapVars, mainVars,
                   total, reg, acc, mu, ret>>

\* lines 395-397: no free slot; walkDir is called in this goroutine
WalkCallSync(d) ==
    /\ inLoop(d)
    /\ classify(d, cur(d)) = "dir"
    /\ selectDefault(sem, cfg.workers)
    /\ LET c == full(d, cur(d))
       IN  /\ pc' = [pc EXCEPT ![c] = "entry", ![d] = "call"]
           /\ mode' = [mode EXCEPT ![c] = "sync"]
           /\ born' = [born EXCEPT ![c] = cancelled]
    /\ UNCHANGED <<fsys, cfg, cancelled, sem, s, readDirs, heapVars, mainVars,
                   idx, total, reg, acc, wg, mu, ret>>

\* lines 397-403: the synchronous call has returned; on success total is read
\* for "total += size" (no lock is taken on this path)
WalkSyncReturn(d) ==
    /\ pc[d] = "call"
    /\ LET c == full(d, cur(d))
       IN  /\ pc[c] = "returned"
           /\ IF ret[c].err = NoErr
              THEN /\ pc' = [pc EXCEPT ![c] = "done", ![d] = "syncAdd"]
                   /\ reg' = [reg EXCEPT ![d] = total[d]]
                   /\ UNCHANGED <<s, idx>>
              ELSE /\ pc' = [pc EXCEPT ![c] = "done", ![d] = "iter"]
                   /\ s' = IF isIgnorable(ret[c].err) THEN s ELSE bump("errors")
                   /\ idx' = [idx EXCEPT ![d] = @ + 1]
                   /\ UNCHANGED reg
    /\ UNCHANGED <<fsys, cfg, cancelled, sem, readDirs, heapVars, mainVars,
                   total, acc, wg, mu, mode, ret, born>>

\* lines 399-400: total is written back, then dirTop.push
WalkSyncAdd(d) ==
    /\ pc[d] = "syncAdd"
    /\ LET c == full(d, cur(d))
           it == item(c, ret[c].size)
       IN  /\ total' = [total EXCEPT ![d] = reg[d] + ret[c].size]
           /\ dirTop' = push(dirTop, it)
           /\ dirPushed' = Append(dirPushed, it)
    /\ pc' = [pc EXCEPT ![d] = "iter"]
    /\ idx' = [idx EXCEPT ![d] = @ + 1]
    /\ UNCHANGED <<fsys, cfg, cancelled, sem, s, readDirs, mainVars,
                   fileTop, filePushed, reg, acc, wg, mu, mode, ret, born>>

\* lines 409-411: a regular file; total is read for "total += fs" (no lock)
WalkFileLoad(d) ==
    /\ inLoop(d)
    /\ classify(d, cur(d)) = "file"
    /\ reg' = [reg EXCEPT ![d] = total[d]]
    /\ pc' = [pc EXCEPT ![d] = "fileAdd"]
    /\ UNCHANGED <<fsys, cfg, cancelled, sem, s, readDirs, heapVars, mainVars,
                   idx, total, acc, wg, mu, mode, ret, born>>

\* lines 411-413: total is written back, filesSeen counted, fileTop.push
WalkFileAdd(d) ==
    /\ pc[d] = "fileAdd"
    /\ LET fp == full(d, cur(d))
           it == item(fp, fsys.nodes[fp].size)
       IN  /\ total' = [total EXCEPT ![d] = reg[d] + it.Size]
           /\ fileTop' = push(fileTop, it)
           /\ filePushed' = Append(filePushed, it)
    /\ s' = bump("filesSeen")
    /\ pc' = [pc EXCEPT ![d] = "iter"]
    /\ idx' = [idx EXCEPT ![d] = @ + 1]
    /\ UNCHANGED <<fsys, cfg, cancelled, sem, readDirs, mainVars,
                   dirTop, dirPushed, reg, acc, wg, mu, mode, ret, born>>

\* lines 417-418: the loop is over; wg.Wait(), then return total, nil
WalkReturn(d) ==
    /\ pc[d] = "iter"
    /\ idx[d] > Len(fsys.nodes[d].entries)
    /\ wgZero(wg[d])
    /\ pc' = [pc EXCEPT ![d] = "returned"]
    /\ ret' = [ret EXCEPT ![d] = result(total[d], NoErr)]
    /\ UNCHANGED <<fsys, cfg, cancelled, sem, s, readDirs, heapVars, mainVars,
                   idx, total, reg, acc, wg, mu, mode, born>>

---------------------------------------------------------------------------
(* The goroutine of an asynchronous child, after its walkDir returned *)

\* lines 385-393: on success mu.Lock() and the read of the parent's total;
\* otherwise the error is counted unless it is ignorable
AsyncResult(c) ==
    /\ pc[c] = "returned"
    /\ mode[c] = "async"
    /\ IF ret[c].err = NoErr
       THEN /\ mu[parent(c)] = Free
            /\ mu' = [mu EXCEPT ![parent(c)] = c]
            /\ acc' = [acc EXCEPT ![c] = total[parent(c)]]
            /\ pc' = [pc EXCEPT ![c] = "asyncAdd"]
            /\ UNCHANGED s
       ELSE /\ s' = IF isIgnorable(ret[c].err) THEN s ELSE bump("errors")
            /\ pc' = [pc EXCEPT ![c] = "release"]
            /\ UNCHANGED <<mu, acc>>
    /\ UNCHANGED <<fsys, cfg, cancelled, sem, readDirs, heapVars, mainVars,
                   idx, total, reg, wg, mode, ret, born>>

\* lines 388-389: the parent's total is written back, mu.Unlock()
AsyncAdd(c) ==
    /\ pc[c] = "asyncAdd"
    /\ total' = [total EXCEPT ![parent(c)] = acc[c] + ret[c].size]
    /\ mu' = [mu EXCEPT ![parent(c)] = Free]
    /\ pc' = [pc EXCEPT ![c] = "asyncPush"]
    /\ UNCHANGED <<fsys, cfg, cancelled, sem, s, readDirs, heapVars, mainVars,
                   idx, reg, acc, wg, mode, ret, born>>

\* line 390: dirTop.push
AsyncPush(c) ==
    /\ pc[c] = "asyncPush"
    /\ LET it == item(c, ret[c].size)
       IN  /\ dirTop' = push(dirTop, it)
           /\ dirPushed' = Append(dirPushed, it)
    /\ pc' = [pc EXCEPT ![c] = "release"]
    /\ UNCHANGED <<fsys, cfg, cancelled, sem, s, readDirs, mainVars,
                   fileTop, filePushed, idx, total, reg, acc, wg, mu, mode, ret, born>>

\* a goroutine that ends without taking its token back
AsyncReleaseOnSuccess(c) ==
    /\ pc[c] = "release"
    /\ sem' = IF ret[c].err = NoErr THEN sem - 1 ELSE sem
    /\ pc' = [pc EXCEPT ![c] = "wgDone"]
    /\ UNCHANGED <<fsys, cfg, cancelled, s, readDirs, heapVars, mainVars,
                   idx, total, reg, acc, wg, mu, mode, ret, born>>

\* line 384: the deferred <-sem (deferred calls run last in, first out)
AsyncRelease(c) ==
    /\ pc[c] = "release"
    /\ sem' = sem - 1
    /\ pc' = [pc EXCEPT ![c] = "wgDone"]
    /\ UNCHANGED <<fsys, cfg, cancelled, s, readDirs, heapVars, mainVars,
                   idx, total, reg, acc, wg, mu, mode, ret, born>>

\* line 383: the deferred wg.Done()
AsyncWgDone(c) ==
    /\ pc[c] = "wgDone"
    /\ wg' = [wg EXCEPT ![parent(c)] = @ - 1]
    /\ pc' = [pc EXCEPT ![c] = "done"]
    /\ UNCHANGED <<fsys, cfg, cancelled, sem, s, readDirs, heapVars, mainVars,
                   idx, total, reg, acc, mu, mode, ret, born>>

---------------------------------------------------------------------------
(* main.  The progress goroutine of lines 253-272 only loads the counters *)
(* and prints them; it changes no state and is left out.               *)

\* lines 240-250: wg.Add(1) and the goroutine of the next root
MainSpawn ==
    /\ mainPc = "spawn"
    /\ rootIdx < Len(fsys.roots)
    /\ LET r == fsys.roots[rootIdx + 1]
       IN  /\ pc' = [pc EXCEPT ![r] = "entry"]
           /\ mode' = [mode EXCEPT ![r] = "root"]
           /\ born' = [born EXCEPT ![r] = cancelled]
    /\ rootsWg' = rootsWg + 1
    /\ rootIdx' = rootIdx + 1
    /\ UNCHANGED <<fsys, cfg, cancelled, sem, s, readDirs, heapVars,
                   idx, total, reg, acc, wg, mu, ret,
                   mainPc, dirOut, fileOut, summary, outAt>>

\* a root goroutine that pushes the size of its root
RootDonePush(r) ==
    /\ pc[r] = "returned"
    /\ mode[r] = "root"
    /\ rootsWg' = rootsWg - 1
    /\ pc' = [pc EXCEPT ![r] = "done"]
    /\ dirTop' = push(dirTop, item(r, ret[r].size))
    /\ dirPushed' = Append(dirPushed, item(r, ret[r].size))
    /\ UNCHANGED <<fsys, cfg, cancelled, sem, s, readDirs, fileTop, filePushed,
                   idx, total, reg, acc, wg, mu, mode, ret, born,
                   mainPc, rootIdx, dirOut, fileOut, summary, outAt>>

\* lines 244-248: a root's walkDir returned; its size is dropped, wg.Done()
RootDone(r) ==
    /\ pc[r] = "returned"
    /\ mode[r] = "root"
    /\ rootsWg' = rootsWg - 1
    /\ pc' = [pc EXCEPT ![r] = "done"]
    /\ UNCHANGED <<fsys, cfg, cancelled, sem, s, readDirs, heapVars,
                   idx, total, reg, acc, wg, mu, mode, ret, born,
                   mainPc, rootIdx, dirOut, fileOut, summary, outAt>>

\* line 274: wg.Wait()
MainWait ==
    /\ mainPc = "spawn"
    /\ rootIdx = Len(fsys.roots)
    /\ wgZero(rootsWg)
    /\ mainPc' = "printDirs"
    /\ UNCHANGED <<fsys, cfg, cancelled, sem, s, readDirs, heapVars, frameVars,
                   rootIdx, rootsWg, dirOut, fileOut, summary, outAt>>

\* line 285: dirTop.sortedDesc()
MainPrintDirs ==
    /\ mainPc = "printDirs"
    /\ dirOut' \in sortedDesc(dirTop)
    /\ mainPc' = "printFiles"
    /\ UNCHANGED <<fsys, cfg, cancelled, sem, s, readDirs, heapVars, frameVars,
                   rootIdx, rootsWg, fileOut, summary, outAt>>

\* line 301: fileTop.sortedDesc()
MainPrintFiles ==
    /\ mainPc = "printFiles"
    /\ fileOut' \in sortedDesc(fileTop)
    /\ outAt' = Len(filePushed)
    /\ mainPc' = "summary"
    /\ UNCHANGED <<fsys, cfg, cancelled, sem, s, readDirs, heapVars, frameVars,
                   rootIdx, rootsWg, dirOut, summary>>

\* lines 313-320: the counters are read; main returns and the deferred
\* cancel() of line 228 runs
MainSummary ==
    /\ mainPc = "summary"
    /\ summary' = s
    /\ mainPc' = "done"
    /\ cancelled' = TRUE
    /\ UNCHANGED <<fsys, cfg, sem, s, readDirs, heapVars, frameVars,
                   rootIdx, rootsWg, dirOut, fileOut, outAt>>

\* lines 227-228: ctx is an argument of walkDir, and the holder of cancel may
\* call it at any moment of the scan
Cancel ==
    /\ ~cancelled
    /\ mainPc = "spawn"
    /\ cancelled' = TRUE
    /\ UNCHANGED <<fsys, cfg, sem, s, readDirs, heapVars, frameVars, mainVars>>

---------------------------------------------------------------------------
(* Specifications *)

Walk ==
    \/ \E d \in Dirs : WalkEntry(d)
    \/ \E d \in Dirs : WalkList(d)
    \/ \E d \in Dirs : WalkSkip(d)
    \/ \E d \in Dirs : WalkSpawn(d)
    \/ \E d \in Dirs : WalkCallSync(d)
    \/ \E d \in Dirs : WalkSyncReturn(d)
    \/ \E d \in Dirs : WalkSyncAdd(d)
    \/ \E d \in Dirs : WalkFileLoad(d)
    \/ \E d \in Dirs : WalkFileAdd(d)
    \/ \E d \in Dirs : WalkReturn(d)
    \/ \E c \in Dirs : AsyncResult(c)
    \/ \E c \in Dirs : AsyncAdd(c)
    \/ \E c \in Dirs : AsyncPush(c)
    \/ \E c \in Dirs : AsyncRelease(c)
    \/ \E c \in Dirs : AsyncWgDone(c)
    \/ \E r \in Dirs : RootDone(r)

Main == MainSpawn \/ MainWait \/ MainPrintDirs \/ MainPrintFiles \/ MainSummary

Next == Walk \/ Main \/ Cancel

Spec == Init /\ [][Next]_vars

\* Every goroutine that can run is eventually run by the Go scheduler.
FairSpec == Spec /\ WF_vars(Walk) /\ WF_vars(Main)

\* The same program started with the filter flags.
FilterSpec == InitFilter /\ [][Next]_vars

---------------------------------------------------------------------------
(* One selector alone: any sequence of pushes, for any k *)

InitHeap ==
    \E k \in -1..MaxTopK : InitWith(FSNone, walkCfg(k, 0, FALSE, 0, FALSE, <<>>))

\* some goroutine calls fileTop.push(it)
HeapPush ==
    /\ Len(filePushed) < MaxPushes
    /\ \E size \in 0..MaxSize :
          LET it == item(<<ToString(Len(filePushed) + 1)>>, size)
          IN  /\ fileTop' = push(fileTop, it)
              /\ filePushed' = Append(filePushed, it)
    /\ UNCHANGED <<fsys, cfg, cancelled, sem, s, readDirs, dirTop, dirPushed,
                   frameVars, mainVars>>

\* some goroutine calls fileTop.sortedDesc()
HeapSortedDesc ==
    /\ fileOut' \in sortedDesc(fileTop)
    /\ outAt' = Len(filePushed)
    /\ UNCHANGED <<fsys, cfg, cancelled, sem, s, readDirs, heapVars, frameVars,
                   mainPc, rootIdx, rootsWg, dirOut, summary>>

NextHeap == HeapPush \/ HeapSortedDesc

HeapSpec == InitHeap /\ [][NextHeap]_vars

---------------------------------------------------------------------------
(* Claims *)

Sizes(items) == [i \in 1..Len(items) |-> items[i].Size]

Range(f) == {f[x] : x \in DOMAIN f}

\* a sequence of numbers as a multiset: value -> number of occurrences
BagOf(nums) == [v \in Range(nums) |-> Cardinality({i \in DOMAIN nums : nums[i] = v})]

RemoveAt(seq, i) == SubSeq(seq, 1, i - 1) \o SubSeq(seq, i + 1, Len(seq))

\* the m largest numbers of nums (all of them when there are fewer than m)
RECURSIVE TakeLargest(_, _)
TakeLargest(nums, m) ==
    IF m <= 0 \/ nums = <<>> THEN <<>>
    ELSE LET i == CHOOSE i \in DOMAIN nums : \A j \in DOMAIN nums : nums[j] <= nums[i]
         IN  <<nums[i]>> \o TakeLargest(RemoveAt(nums, i), m - 1)

TopKExact(h, pushed) ==
    \A out \in sortedDesc(h) :
        /\ Len(out) = Min(h.k, Len(pushed))
        /\ BagOf(Sizes(out)) = BagOf(TakeLargest(Sizes(pushed), Min(h.k, Len(pushed))))

\* C1: for every capacity K >= 0 and every sequence of N pushes, in any order,
\* sortedDesc returns min(K, N) items whose sizes are, as a multiset, the
\* min(K, N) largest sizes pushed.
C1_TopKExact ==
    fileTop.k >= 0 => TopKExact(fileTop, filePushed)

\* C1 witness: a selector of capacity 2 after four pushes, one of which
\* replaced the root and one of which was discarded, and its snapshot.
C1_Witness ==
    /\ fileTop.k = 2
    /\ Sizes(filePushed) = <<1, 2, 3, 3>>
    /\ fileOut \in sortedDesc(fileTop)
    /\ Sizes(fileOut) = <<3, 3>>

\* walkDir has returned for d (its goroutine may still be finishing)
HasReturned(d) == pc[d] \in {"returned", "asyncAdd", "asyncPush", "release", "wgDone", "done"}

\* the directories the scan reaches from d: d and every directory below it
\* whose chain of entries is recursed into under cfg
Under(d) ==
    {c \in Dirs :
        /\ Len(c) >= Len(d)
        /\ SubSeq(c, 1, Len(d)) = d
        /\ \A j \in (Len(d) + 1)..Len(c) : classify(SubSeq(c, 1, j - 1), c[j]) = "dir"}

\* the sum of the sizes of the regular files under d, leaving out what cfg
\* skips (globs, symlinks, hidden entries, the depth limit) and the
\* directories that cannot be listed
RECURSIVE ExactSizeFrom(_, _)
ExactSizeFrom(d, i) ==
    IF depthLimited(depth(d), cfg.maxDepth) \/ fsys.nodes[d].listErr # NoErr THEN 0
    ELSE IF i > Len(fsys.nodes[d].entries) THEN 0
    ELSE LET name == fsys.nodes[d].entries[i]
             c == classify(d, name)
         IN  (IF c = "file" THEN fsys.nodes[full(d, name)].size
              ELSE IF c = "dir" THEN ExactSizeFrom(full(d, name), 1)
              ELSE 0) + ExactSizeFrom(d, i + 1)

ExactSize(d) == ExactSizeFrom(d, 1)

\* no listing failure and no metadata failure at or below d
NoFailureUnder(d) ==
    \A c \in Under(d) :
        depthLimited(depth(c), cfg.maxDepth)
        \/ /\ fsys.nodes[c].listErr = NoErr
           /\ \A i \in 1..Len(fsys.nodes[c].entries) :
                 classify(c, fsys.nodes[c].entries[i]) # "infoErr"

\* no call at or below d was cut short by cancellation
NoCancelUnder(d) == \A c \in Under(d) : ret[c].err # ErrCtx

\* C2: with no listing failure, no metadata failure and no cancellation, the
\* size walkDir returns for a directory, and the size pushed into dirTop for
\* it, is the exact sum of the sizes of the regular files under it.
C2_AggregateExact ==
    /\ \A d \in Dirs :
          (HasReturned(d) /\ NoFailureUnder(d) /\ NoCancelUnder(d))
              => ret[d] = result(ExactSize(d), NoErr)
    /\ \A i \in 1..Len(dirPushed) :
          LET d == dirPushed[i].Path
          IN  (NoFailureUnder(d) /\ NoCancelUnder(d)) => dirPushed[i].Size = ExactSize(d)

\* the asynchronous subtree tasks that hold a slot of sem
ActiveTasks == {c \in Dirs : mode[c] = "async" /\ pc[c] \notin {"idle", "wgDone", "done"}}

\* C3: the number of subtree tasks dispatched through sem and still holding
\* their slot never exceeds cfg.workers.
C3_TasksBounded ==
    /\ Cardinality(ActiveTasks) <= cfg.workers
    /\ sem <= cfg.workers

\* C3 witness: the pool of two is full and a third subdirectory is being
\* walked synchronously by its parent.
C3_Witness ==
    /\ cfg.workers = 2
    /\ Cardinality(ActiveTasks) = 2
    /\ \E c \in Dirs : mode[c] = "sync" /\ pc[c] = "list"

\* the walkDir calls that are executing: polling ctx, listing, or in the loop
\* over the entries (not suspended in a synchronous call, not in wg.Wait)
Executing ==
    {d \in Dirs : pc[d] \in {"entry", "list", "fileAdd", "syncAdd"} \/ inLoop(d)}

C5_ForkJoin ==
    \A d \in Dirs :
        HasReturned(d) =>
            /\ \A c \in Children(d) : pc[c] \in {"idle", "done"}
            /\ wg[d] = 0
            /\ mu[d] = Free

\* C5 witness: a directory has returned after joining an asynchronous child
\* and a synchronous child.
C5_Witness ==
    \E d \in Dirs :
        /\ HasReturned(d)
        /\ \E c1, c2 \in Children(d) :
              /\ mode[c1] = "async" /\ pc[c1] = "done"
              /\ mode[c2] = "sync" /\ pc[c2] = "done"

\* a walkDir call is at a directory entry of its loop
AtDirEntry(d) == inLoop(d) /\ classify(d, cur(d)) = "dir"

\* C6: admission never blocks (at a subdirectory either the send on sem or
\* the default branch can proceed), and the scan completes: main gets past
\* wg.Wait and returns, for every worker count including 0.
C6_ScanCompletes ==
    /\ [](\A d \in Dirs :
            AtDirEntry(d) => (trySend(sem, cfg.workers) \/ selectDefault(sem, cfg.workers)))
    /\ <>(mainPc = "done")

\* C6 witness: a scan with -workers 0 has walked every directory and main
\* has returned.
C6_Witness ==
    /\ cfg.workers = 0
    /\ mainPc = "done"
    /\ readDirs = Dirs

\* C7: ctx stays done once it is done, and a walkDir call that polls ctx when
\* it is done (every call started afterwards) returns (0, ctx.Err()) without
\* calling os.ReadDir and without touching a counter or a selector.
C7_CancelledAtEntry ==
    /\ [](\A d \in Dirs :
            (born[d] /\ HasReturned(d)) => (ret[d] = result(0, ErrCtx) /\ d \notin readDirs))
    /\ [][/\ cancelled => cancelled'
          /\ \A d \in Dirs :
                (cancelled /\ pc[d] = "entry" /\ pc'[d] # "entry")
                    => /\ pc'[d] = "returned"
                       /\ ret'[d] = result(0, ErrCtx)
                       /\ UNCHANGED <<s, heapVars, readDirs>>]_vars

\* C7 witness: during the scan a call made after cancellation has returned
\* the cancellation error.
C7_Witness ==
    /\ mainPc = "spawn"
    /\ \E d \in Dirs : born[d] /\ pc[d] = "returned" /\ ret[d] = result(0, ErrCtx)

\* C8 as claimed: once ctx is done no traversal dispatches a child, neither
\* to a new goroutine nor by a synchronous call.
C8_NoDispatchAfterCancel ==
    \A c \in Dirs \ Roots : ~born[c]

\* C8 amended: a call made once ctx is done lists nothing and dispatches
\* nothing; only a traversal that was already past its poll of ctx still
\* dispatches its remaining subdirectories, and each of these children
\* returns the cancellation error at entry.
C8_DispatchStopsBelowOpenListings ==
    \A c \in Dirs :
        born[c] =>
            /\ c \notin readDirs
            /\ pc[c] \notin {"list", "iter", "fileAdd", "call", "syncAdd"}
            /\ \A k \in Children(c) : pc[k] = "idle"
            /\ HasReturned(c) => ret[c] = result(0, ErrCtx)
            /\ c \notin Roots => ~born[parent(c)]

\* C8 witness: after cancellation a traversal in its loop took a slot and
\* started a goroutine for a subdirectory, and another called walkDir
\* synchronously.
C8_Witness ==
    \E c1, c2 \in Dirs \ Roots :
        /\ born[c1] /\ mode[c1] = "async" /\ pc[c1] = "done"
        /\ born[c2] /\ mode[c2] = "sync" /\ pc[c2] = "done"

\* the directories whose listing was attempted and failed
FailedDirs == {d \in readDirs : fsys.nodes[d].listErr # NoErr}

\* C9: a listing failure is local.  The failing call counts one error, does
\* not count the directory as seen and returns (0, err); its parent pushes
\* nothing for it, goes through all its entries, and returns success with
\* the sum of the remaining entries.
C9_ListingFailureLocal ==
    /\ s.dirsSeen = Cardinality(readDirs \ FailedDirs)
    /\ s.errors >= Cardinality(FailedDirs)
    /\ \A d \in FailedDirs :
          /\ HasReturned(d)
          /\ ret[d] = result(0, fsys.nodes[d].listErr)
          /\ \A i \in 1..Len(dirPushed) : dirPushed[i].Path # d
          /\ (d \notin Roots /\ HasReturned(parent(d))) =>
                /\ idx[parent(d)] = Len(fsys.nodes[parent(d)].entries) + 1
                /\ ret[parent(d)].err = NoErr
                /\ NoCancelUnder(parent(d)) => ret[parent(d)].size = ExactSize(parent(d))

\* C9 without the value of the sum: everything the claim says but the size
\* the parent returns.
C9_ListingFailureLocalButSum ==
    /\ s.dirsSeen = Cardinality(readDirs \ FailedDirs)
    /\ s.errors >= Cardinality(FailedDirs)
    /\ \A d \in FailedDirs :
          /\ HasReturned(d)
          /\ ret[d] = result(0, fsys.nodes[d].listErr)
          /\ \A i \in 1..Len(dirPushed) : dirPushed[i].Path # d
          /\ (d \notin Roots /\ HasReturned(parent(d))) =>
                /\ idx[parent(d)] = Len(fsys.nodes[parent(d)].entries) + 1
                /\ ret[parent(d)].err = NoErr

\* the error count of a scan that nothing cancelled: one per failed listing,
\* one more in the parent when the failure is not a permission error
ErrorsOfFailures ==
    LET n(d) == IF d \in Roots \/ isIgnorable(fsys.nodes[d].listErr) THEN 1 ELSE 2
        RECURSIVE sum(_)
        sum(D) == IF D = {} THEN 0
                  ELSE LET d == CHOOSE x \in D : TRUE IN n(d) + sum(D \ {d})
    IN  sum(FailedDirs)

\* C10: a permission-denied listing counts one error in the failing call and
\* none in the parent that receives the error, on the asynchronous path and on
\* the synchronous path; a scan whose only failure is one permission-denied
\* subdirectory ends with the error counter at 1.
C10_PermissionCountedOnce ==
    /\ [](mainPc = "done" /\ (\A d \in Dirs : ret[d].err # ErrCtx)
             => summary.errors = ErrorsOfFailures)
    /\ [][\A c \in Dirs :
            /\ (pc[c] = "list" /\ pc'[c] = "returned" /\ ret'[c].err = ErrPerm)
                  => s'.errors = s.errors + 1
            /\ (pc[c] = "returned" /\ ret[c].err = ErrPerm /\ pc'[c] # "returned")
                  => s'.errors = s.errors]_vars

\* C10 witness: the permission-denied subdirectory was walked synchronously,
\* another run of it asynchronously; here the synchronous one, at the end of
\* a scan nothing cancelled.
C10_Witness ==
    /\ mainPc = "done"
    /\ \A d \in Dirs : ret[d].err # ErrCtx
    /\ \E c \in Dirs \ Roots : ret[c].err = ErrPerm /\ mode[c] = "sync" /\ pc[c] = "done"
    /\ summary.errors = ErrorsOfFailures

---------------------------------------------------------------------------
(* The filters of the loop body *)

\* the directories deeper than a positive -maxdepth (a root is at depth 0)
TooDeep(d) == cfg.maxDepth > 0 /\ Len(d) - 1 > cfg.maxDepth

\* path p lies in or below directory d
Below(d, p) == Len(p) > Len(d) /\ SubSeq(p, 1, Len(d)) = d

\* the paths handed to a selector so far
PushedPaths ==
    {filePushed[i].Path : i \in 1..Len(filePushed)}
        \cup {dirPushed[i].Path : i \in 1..Len(dirPushed)}

\* C11: with -maxdepth D > 0 a walkDir call at depth > D that gets past the
\* poll of ctx does not list, adds exactly one to skipped and nothing to the
\* other counters and returns (0, nil); nothing in or below its directory is
\* walked, counted or pushed.  A call at depth <= D, and every call when
\* -maxdepth is 0, lists its directory.
C11_DepthLimit ==
    /\ [](\A d \in Dirs :
            /\ TooDeep(d) =>
                  /\ d \notin readDirs
                  /\ pc[d] \notin {"iter", "fileAdd", "call", "syncAdd"}
                  /\ (HasReturned(d) /\ ret[d].err # ErrCtx) => ret[d] = result(0, NoErr)
                  /\ \A p \in PushedPaths : ~Below(d, p)
                  /\ \A c \in Dirs : Below(d, c) => pc[c] = "idle"
            /\ (~TooDeep(d) /\ HasReturned(d) /\ ret[d].err # ErrCtx) => d \in readDirs)
    /\ [][\A d \in Dirs :
            (TooDeep(d) /\ pc[d] = "list" /\ pc'[d] # "list") =>
                /\ s' = [s EXCEPT !.skipped = @ + 1]
                /\ pc'[d] = "returned"
                /\ ret'[d] = result(0, NoErr)
                /\ UNCHANGED <<heapVars, readDirs>>]_vars

\* C11 witness: with -maxdepth 1 the scan is over; R/a (depth 1) was listed,
\* R/a/b (depth 2) was cut off and counted as skipped, and its file was
\* neither counted nor pushed.
C11_Witness ==
    /\ cfg.maxDepth = 1 /\ cfg.skipPatterns = <<>> /\ cfg.skipHidden
    /\ mainPc = "done"
    /\ readDirs = {<<"R">>, <<"R", "a">>}
    /\ ret[<<"R", "a", "b">>] = result(0, NoErr)
    /\ pc[<<"R", "a", "b">>] = "done"
    /\ summary.skipped >= 1
    /\ summary.filesSeen = 1

\* the walkDir call of d is at entry e of its loop and moves on in this step
LeavesEntry(d, e) ==
    /\ inLoop(d)
    /\ full(d, cur(d)) = e
    /\ pc'[d] # pc[d] \/ idx'[d] # idx[d]

\* what a skipped entry does: one more in skipped, the loop at the next
\* entry, and no total, selector, listing or call touched
SkippedOnce(d) ==
    /\ s' = [s EXCEPT !.skipped = @ + 1]
    /\ idx' = [idx EXCEPT ![d] = @ + 1]
    /\ UNCHANGED <<pc, total, reg, heapVars, readDirs>>

\* every walkDir call at or below path p has not been made
NeverWalked(p) ==
    \A c \in Dirs : (c = p \/ Below(p, c)) => (pc[c] = "idle" /\ c \notin readDirs)

\* neither p nor anything below it has been handed to a selector
NeverPushed(p) == \A q \in PushedPaths : q # p /\ ~Below(p, q)

\* C12: an entry whose full path matches a skip pattern adds exactly one to
\* skipped and nothing to a total, is not pushed and not recursed into,
\* whatever else it is (a file, a directory, a symlink with links not
\* followed, a dot name with -skiphidden, an entry without metadata).
C12_GlobSkip ==
    /\ [](\A e \in DOMAIN fsys.nodes :
            (Len(e) > 1 /\ shouldSkipByGlob(e, cfg.skipPatterns))
                => (NeverWalked(e) /\ NeverPushed(e)))
    /\ [][\A d \in Dirs : \A e \in DOMAIN fsys.nodes :
            (shouldSkipByGlob(e, cfg.skipPatterns) /\ LeavesEntry(d, e))
                => SkippedOnce(d)]_vars

\* C12 witness: a scan with -skip R/a/*, -skiphidden and links not followed
\* is over: the five entries of R/a (dot file, directory, three symlinks) were
\* each counted once as skipped and R/a added nothing to R.
C12_Witness ==
    /\ cfg.skipPatterns # <<>> /\ cfg.skipHidden /\ ~cfg.followLinks
    /\ mainPc = "done"
    /\ summary = [filesSeen |-> 1, dirsSeen |-> 2, skipped |-> 5, errors |-> 0]
    /\ ret[<<"R", "a">>] = result(0, NoErr)
    /\ PushedPaths = {<<"R", "a">>, <<"R", "k">>}

\* the symbolic links that no skip pattern matches
Links ==
    {e \in DOMAIN fsys.nodes :
        fsys.nodes[e].type = "symlink" /\ ~shouldSkipByGlob(e, cfg.skipPatterns)}

\* C13 as claimed: with links not followed, every symlink entry that no
\* pattern matches adds exactly one to skipped, adds nothing to its parent's
\* total, and is neither pushed nor walked.
C13_LinkSkipped ==
    /\ [](~cfg.followLinks => \A e \in Links : NeverPushed(e) /\ e \notin readDirs)
    /\ [][~cfg.followLinks =>
            \A d \in Dirs : \A e \in Links : LeavesEntry(d, e) => SkippedOnce(d)]_vars

\* C13 amended: the same for the links whose metadata de.Info() returns; a
\* link without metadata leaves the loop body at line 361 with one more
\* error, skipped unchanged, and is likewise neither pushed nor walked.
C13_ReadableLinkSkipped ==
    /\ [](~cfg.followLinks => \A e \in Links : NeverPushed(e) /\ e \notin readDirs)
    /\ [][~cfg.followLinks =>
            \A d \in Dirs : \A e \in Links :
                LeavesEntry(d, e) =>
                    IF fsys.nodes[e].infoErr
                    THEN /\ s' = [s EXCEPT !.errors = @ + 1]
                         /\ idx' = [idx EXCEPT ![d] = @ + 1]
                         /\ UNCHANGED <<pc, total, reg, heapVars, readDirs>>
                    ELSE SkippedOnce(d)]_vars

\* C13 witness: a scan with the default filters is over: the two readable
\* links of R/a were counted as skipped, the unreadable one as an error, and
\* R/a returned the sizes of its files only.
C13_Witness ==
    /\ ~cfg.followLinks /\ cfg.skipPatterns = <<>> /\ ~cfg.skipHidden /\ cfg.maxDepth = 0
    /\ cfg.workers = 0
    /\ mainPc = "done"
    /\ summary = [filesSeen |-> 3, dirsSeen |-> 3, skipped |-> 2, errors |-> 1]
    /\ ret[<<"R", "a">>] = result(4, NoErr)

\* the links of directory d that get to the tests of lines 377 and 409 when
\* links are followed: not matched by a pattern, metadata read, not hidden
FollowedLinks(d) ==
    {e \in Links :
        /\ Len(e) > 1 /\ parent(e) = d
        /\ ~fsys.nodes[e].infoErr
        /\ ~(cfg.skipHidden /\ e[Len(e)] \in DotNames)
        /\ "target" \in DOMAIN fsys.nodes[e]}

\* C14: with -followlinks, when walkDir has returned successfully for a
\* directory, each of its links to a regular file has been pushed into
\* fileTop with the file's size and is part of the total, and each of its
\* links to a directory has been pushed into dirTop (and, with no depth
\* limit, listed).
C14_LinksFollowed ==
    cfg.followLinks =>
        \A d \in Dirs :
            (HasReturned(d) /\ ret[d].err = NoErr /\ d \in readDirs) =>
                \A e \in FollowedLinks(d) :
                    LET tg == fsys.nodes[fsys.nodes[e].target]
                    IN  IF tg.type = "file"
                        THEN /\ item(e, tg.size) \in Range(filePushed)
                             /\ ret[d].size >= tg.size
                        ELSE /\ \E i \in 1..Len(dirPushed) : dirPushed[i].Path = e
                             /\ cfg.maxDepth = 0 => e \in readDirs

---------------------------------------------------------------------------
(* main, the counters and the selector *)

\* C15: every root is walked into the same fileTop, dirTop and s, and main is
\* past wg.Wait() only when every walkDir call and every goroutine it started
\* is over; from then on (the reads of lines 285, 301 and 313-320) no push is
\* made and no counter changes.
C15_ReadAfterAllRoots ==
    /\ [](mainPc # "spawn" =>
            /\ \A d \in Dirs : pc[d] \in {"idle", "done"}
            /\ \A r \in Roots : pc[r] = "done"
            /\ rootsWg = 0 /\ sem = 0)
    /\ [][mainPc # "spawn" => UNCHANGED <<s, heapVars>>]_vars

\* C15 witness: main has read dirTop after the scan of two roots, and the
\* snapshot holds a directory of each root.
C15_Witness ==
    /\ mainPc = "printFiles"
    /\ Len(fsys.roots) = 2
    /\ s.dirsSeen = 4
    /\ {dirOut[i].Path : i \in 1..Len(dirOut)} = {<<"C", "a">>, <<"D", "d">>}

\* the regular-file entries whose size was added to the total of directory d
FilesAdded(d) ==
    {i \in 1..(idx[d] - 1) :
        /\ d \in readDirs
        /\ fsys.nodes[full(d, fsys.nodes[d].entries[i])].type = "file"
        /\ classify(d, fsys.nodes[d].entries[i]) = "file"}

RECURSIVE SumOver(_, _)
SumOver(f(_), D) ==
    IF D = {} THEN 0
    ELSE LET d == CHOOSE x \in D : TRUE IN f(d) + SumOver(f, D \ {d})

CountFilesAdded(d) == Cardinality(FilesAdded(d))

\* C16: no step lowers a counter, and when the scan is over dirsSeen is the
\* number of directories listed successfully and filesSeen is the number of
\* regular-file entries added to a total, which is the number of pushes into
\* fileTop.
C16_CountersExact ==
    /\ [][/\ s'.filesSeen >= s.filesSeen /\ s'.dirsSeen >= s.dirsSeen
          /\ s'.skipped >= s.skipped /\ s'.errors >= s.errors]_vars
    /\ [](mainPc # "spawn" =>
            /\ s.dirsSeen = Cardinality(readDirs \ FailedDirs)
            /\ s.filesSeen = SumOver(CountFilesAdded, Dirs)
            /\ s.filesSeen = Len(filePushed))

\* C16 witness: a scan of E by three goroutines is over, nothing was
\* cancelled: two of the four directories were listed successfully and two
\* files were added and pushed.
C16_Witness ==
    /\ mainPc = "done"
    /\ cfg.workers = 2
    /\ \A d \in Dirs : ret[d].err # ErrCtx
    /\ Cardinality(FailedDirs) = 2
    /\ summary.dirsSeen = 2
    /\ summary.filesSeen = 2
    /\ Len(filePushed) = 2

Max(a, b) == IF a > b THEN a ELSE b

\* C17: a selector of capacity k never holds more than max(k, 0) items; with
\* k <= 0 it stays empty and sortedDesc returns the empty sequence.
C17_AtMostK ==
    /\ Len(fileTop.data) <= Max(fileTop.k, 0)
    /\ fileTop.k <= 0 =>
          /\ fileTop.data = <<>>
          /\ outAt >= 0 => fileOut = <<>>

\* C17 witness: three pushes into a selector of capacity 0, then a snapshot.
C17_Witness ==
    /\ fileTop.k = 0
    /\ Len(filePushed) = 3
    /\ outAt = 3
    /\ fileOut = <<>>

\* out holds the items of data, each as often as data does, largest first
IsSnapshotOf(out, data) ==
    /\ Len(out) = Len(data)
    /\ BagOf(out) = BagOf(data)
    /\ \A i \in 1..(Len(out) - 1) : out[i].Size >= out[i + 1].Size

\* C18: sortedDesc returns the items of the selector ordered by non-increasing
\* size and changes nothing in the selector; a second call with no push in
\* between returns the same items as the first.
C18_SnapshotPure ==
    /\ [](outAt = Len(filePushed) => IsSnapshotOf(fileOut, fileTop.data))
    /\ [][filePushed' = filePushed =>
            /\ fileTop' = fileTop
            /\ IsSnapshotOf(fileOut', fileTop.data)
            /\ outAt = Len(filePushed) => BagOf(fileOut') = BagOf(fileOut)]_vars

\* C18 witness: a snapshot of a full selector whose root is not its largest
\* item, taken after the last push.
C18_Witness ==
    /\ fileTop.k = 2
    /\ Sizes(fileTop.data) = <<1, 3>>
    /\ outAt = Len(filePushed)
    /\ Sizes(fileOut) = <<3, 1>>

\* what walkDir(d) added to its total itself: the sizes of its regular files
\* and the sizes its synchronous children returned
AddedByParent(d) ==
    SumOver(LAMBDA i : fsys.nodes[full(d, fsys.nodes[d].entries[i])].size, FilesAdded(d))
    + SumOver(LAMBDA c : ret[c].size,
              {c \in Children(d) : mode[c] = "sync" /\ pc[c] = "done" /\ ret[c].err = NoErr})

\* what the goroutines of the asynchronous children of d added to its total
AddedByChildren(d) ==
    SumOver(LAMBDA c : ret[c].size,
            {c \in Children(d) : /\ mode[c] = "async"
                                 /\ pc[c] \in {"asyncPush", "release", "wgDone", "done"}
                                 /\ ret[c].err = NoErr})

\* C19: no addition to a running total is lost: the size walkDir returns for
\* a directory is the sum of everything that was added to its total, by the
\* call itself and by the goroutines of its asynchronous children.
C19_NoAdditionLost ==
    \A d \in Dirs :
        (HasReturned(d) /\ d \in readDirs /\ ret[d].err = NoErr)
            => ret[d].size = AddedByParent(d) + AddedByChildren(d)

\* C20: a subtree task takes one slot of sem when it is dispatched and gives
\* it back when its goroutine ends, whatever its walkDir returned; the
\* tokens in sem are as many as the dispatched tasks that have not yet
\* released, never more than one per task, and none once main is past
\* wg.Wait().
C20_SlotPerTask ==
    /\ [](/\ sem = Cardinality(ActiveTasks)
          /\ mainPc # "spawn" => (sem = 0 /\ ActiveTasks = {}))
    /\ [][\A c \in Dirs :
            /\ (pc[c] = "idle" /\ mode'[c] = "async") => sem' = sem + 1
            /\ (mode[c] = "async" /\ pc[c] = "release" /\ pc'[c] # "release")
                  => sem' = sem - 1
            /\ (mode[c] = "async" /\ pc[c] \notin {"idle", "release"} /\ pc'[c] # pc[c])
                  => sem' = sem]_vars

\* C20 witness: one task has released its slot after a permission failure,
\* one after finding ctx done, and a third still holds the only token in sem.
C20_Witness ==
    /\ sem = 1
    /\ \E c1, c2, c3 \in Dirs :
          /\ mode[c1] = "async" /\ pc[c1] = "done" /\ ret[c1].err = ErrPerm
          /\ mode[c2] = "async" /\ pc[c2] = "done" /\ ret[c2].err = ErrCtx
          /\ mode[c3] = "async" /\ pc[c3] = "iter"

\* data is a binary min-heap on Size (i is Go's 0-based index)
IsMinHeap(data) ==
    \A i \in 1..(Len(data) - 1) : data[((i - 1) \div 2) + 1].Size <= data[i + 1].Size

\* C21: after every push the array of the selector is a binary min-heap on
\* Size and its root is a smallest retained item; a push on a full selector
\* replaces the root by the incoming item when the incoming size is strictly
\* greater than the root's, and changes nothing otherwise.
C21_HeapOrder ==
    /\ [](/\ IsMinHeap(fileTop.data)
          /\ \A i \in 1..Len(fileTop.data) : fileTop.data[1].Size <= fileTop.data[i].Size)
    /\ [][(/\ filePushed' # filePushed
           /\ fileTop.k > 0
           /\ Len(fileTop.data) = fileTop.k) =>
            LET it == filePushed'[Len(filePushed')]
            IN  IF it.Size > fileTop.data[1].Size
                THEN /\ Len(fileTop'.data) = fileTop.k
                     /\ Range(fileTop'.data)
                            = (Range(fileTop.data) \ {fileTop.data[1]}) \cup {it}
                ELSE fileTop' = fileTop]_vars

\* C21 witness: a full selector of capacity 3 (a root with two children) was
\* offered an item of the size of its root and kept its three items, the
\* oldest one at the root.
C21_Witness ==
    /\ fileTop.k = 3
    /\ Sizes(filePushed) = <<2, 3, 3, 2>>
    /\ fileTop.data = <<item(<<"1">>, 2), item(<<"2">>, 3), item(<<"3">>, 3)>>

\* C22: every item handed to dirTop is a subdirectory (never a root) whose
\* walkDir call has returned without error, with the size that call
\* returned; it is handed over by the code of its parent's call (the loop of
\* the parent or the goroutine the parent started), once per directory.  A
\* scan of roots that hold no directory leaves dirTop empty.
C22_DirPushedByParent ==
    /\ [](/\ \A i \in 1..Len(dirPushed) :
                LET c == dirPushed[i].Path
                IN  /\ c \in Dirs \ Roots
                    /\ HasReturned(c)
                    /\ ret[c].err = NoErr
                    /\ dirPushed[i].Size = ret[c].size
                    /\ pc[parent(c)] \notin {"idle", "entry", "list"}
                    /\ \A j \in 1..Len(dirPushed) : dirPushed[j].Path = c => j = i
          /\ \A i \in 1..Len(dirTop.data) : dirTop.data[i].Path \notin Roots
          /\ (Dirs = Roots /\ mainPc \in {"printFiles", "summary", "done"}) => dirOut = <<>>)
    /\ [][dirPushed' # dirPushed =>
            LET c == dirPushed'[Len(dirPushed')].Path
            IN  /\ dirPushed' = Append(dirPushed, item(c, ret[c].size))
                /\ \/ mode[c] = "sync" /\ pc[parent(c)] = "syncAdd" /\ pc[c] = "done"
                   \/ mode[c] = "async" /\ pc[c] = "asyncPush"]_vars

\* C22 witness: the scan of C and D is over; each of the two subdirectories
\* was pushed once, one by its parent's loop and one by the goroutine its
\* parent started, and no root was pushed.
C22_Witness ==
    /\ mainPc = "done"
    /\ Len(fsys.roots) = 2
    /\ Len(dirPushed) = 2
    /\ {dirPushed[i].Path : i \in 1..2} = Dirs \ Roots
    /\ \E c1, c2 \in Dirs \ Roots : mode[c1] = "sync" /\ mode[c2] = "async"

\* the code of the parent is done with subdirectory c: the goroutine started
\* for c is over, or the loop of the parent is past the synchronous call
HandledByParent(c) ==
    /\ pc[c] = "done"
    /\ ~(pc[parent(c)] = "syncAdd" /\ full(parent(c), cur(parent(c))) = c)

\* C23: a subdirectory cut off by the depth limit returns (0, nil) unlisted,
\* and its parent pushes (path, 0) into dirTop for it: it is an item of the
\* directory selector, counted in skipped and not in dirsSeen.
C23_DepthSkippedPushed ==
    /\ \A c \in Dirs \ Roots :
          (TooDeep(c) /\ HandledByParent(c) /\ ret[c].err = NoErr) =>
              /\ ret[c].size = 0
              /\ c \notin readDirs
              /\ Cardinality({i \in 1..Len(dirPushed) : dirPushed[i] = item(c, 0)}) = 1
    /\ s.dirsSeen = Cardinality(readDirs \ FailedDirs)
    /\ s.skipped >= Cardinality({c \in Dirs : TooDeep(c) /\ HasReturned(c)
                                                /\ ret[c].err = NoErr})

\* C23 witness: the scan with -maxdepth 1 is over and the directory list main
\* printed holds R/a/b with size 0, although R/a/b holds a file of 3 bytes
\* and was not counted as seen.
C23_Witness ==
    /\ cfg.maxDepth = 1 /\ cfg.skipPatterns = <<>>
    /\ mainPc = "done"
    /\ item(<<"R", "a", "b">>, 0) \in Range(dirOut)
    /\ summary.dirsSeen = 2
    /\ mode[<<"R", "a", "b">>] = "async"

---------------------------------------------------------------------------
(* The error counter *)

\* the subdirectories whose walkDir call found ctx done at its entry
CancelledChildren == {c \in Dirs \ Roots : HasReturned(c) /\ ret[c].err = ErrCtx}

\* C24: ctx.Err() is not ignorable: the parent of a subdirectory whose call
\* returned it, in its loop or in the goroutine it started, adds one to
\* errors, so a scan in which no listing fails ends with one error per
\* subdirectory dispatched after cancellation.
C24_CancelCounted ==
    /\ [](mainPc = "done" =>
            summary.errors = ErrorsOfFailures + Cardinality(CancelledChildren))
    /\ [][\A c \in Dirs \ Roots :
            (pc[c] = "returned" /\ ret[c].err = ErrCtx /\ pc'[c] # "returned")
                => /\ s' = [s EXCEPT !.errors = @ + 1]
                   /\ UNCHANGED <<heapVars, total>>]_vars

\* C24 witness: the scan of C and D was cancelled before either root reached
\* its subdirectory; no listing failed and the summary shows two errors.
C24_Witness ==
    /\ mainPc = "done"
    /\ FailedDirs = {}
    /\ readDirs = Roots
    /\ Cardinality(CancelledChildren) = 2
    /\ summary.errors = 2

\* the directories whose listing failed with an error other than permission
IOFailed == {d \in FailedDirs : fsys.nodes[d].listErr = ErrIO}

\* C25: a listing that fails with an error other than permission adds one to
\* errors in the failing call; for a subdirectory the parent that receives
\* the error adds one more, for a root the goroutine of main adds nothing.
\* The final count is two per such subdirectory and one per such root (plus
\* one per permission failure and per cancelled subdirectory).
C25_FailureCountedTwice ==
    /\ [](mainPc = "done" =>
            summary.errors = 2 * Cardinality(IOFailed \ Roots)
                             + Cardinality(IOFailed \cap Roots)
                             + Cardinality(FailedDirs \ IOFailed)
                             + Cardinality(CancelledChildren))
    /\ [][\A c \in Dirs :
            /\ (pc[c] = "list" /\ pc'[c] = "returned" /\ ret'[c].err = ErrIO)
                  => s'.errors = s.errors + 1
            /\ (pc[c] = "returned" /\ ret[c].err = ErrIO /\ pc'[c] # "returned")
                  => s'.errors = s.errors + (IF c \in Roots THEN 0 ELSE 1)]_vars

\* C25 witness: the scan of E is over, nothing was cancelled: two listings
\* failed (E/b denied, E/e with an I/O error) and the summary shows three
\* errors.
C25_Witness ==
    /\ mainPc = "done"
    /\ CancelledChildren = {}
    /\ IOFailed = {<<"E", "e">>}
    /\ Cardinality(FailedDirs) = 2
    /\ summary.errors = 3

====
